---- MODULE Spec2Model ----
(***************************************************************************)
(* A model of zap (src/zap/core.py): the blocking entry point run with its *)
(* retry loop, the single-attempt runner _run_once on its blocking-capture *)
(* and live paths, the concurrent entry point run_async, the pipe operator  *)
(* Result.__or__ and the scoped directory change cd.                        *)
(*                                                                          *)
(* Python's Optional values are sequences of length at most one: None is   *)
(* <<>> and a present value x is <<x>>.  Text is a sequence of lines, each *)
(* line the number the child gave it, so "" is <<>>.                        *)
(***************************************************************************)
EXTENDS Integers, Sequences, FiniteSets, TLC

\* ---------------------------------------------------------------- bounds
MaxRetries == 2
MaxCode == 2
MaxTimeout == 1
MaxLines == 1
MaxLiveLines == 2
PipeCap == 1
MaxDepth == 2

\* ---------------------------------------------------------------- values
None == <<>>
Some(x) == <<x>>

Streams == {"out", "err"}
Codes == 0..MaxCode
Timeouts == {None} \cup {Some(t) : t \in 0..MaxTimeout}

\* Python truthiness of an Optional number: None and 0 are falsy.
Truthy(opt) == opt # None /\ opt[1] # 0

\* Python truthiness of an Optional text: None and "" are falsy.
TruthyText(opt) == opt # None /\ opt[1] # <<>>

\* The defaults of run's keyword parameters.
DefaultCheck == TRUE
DefaultRetries == 0
DefaultDelay == 1

\* The directories that exist, and a path that does not.
Dirs == {"/", "/a", "/b"}
Missing == "/missing"

\* os.environ of the parent process.
ParentEnviron == [A |-> "parent", B |-> "parent"]

\* The env mappings a caller passes: one that overrides A, one that adds C,
\* one that does both.
EnvMappings == {[k \in S |-> "extra"] : S \in {{"A"}, {"C"}, {"A", "C"}}}

VARIABLES
    pc,            \* the caller's position in run / _run_once / run_async
    call,          \* the arguments of the call in progress
    attempt,       \* run: the loop variable of `for attempt in range(1 + retries)`
    attempts,      \* number of _run_once invocations (children spawned) of this call
    sleeps,        \* number of time.sleep(delay) calls of this call
    result,        \* run: the local `result` (None while unbound)
    last_err,      \* run: the local `last_err`
    ret,           \* what the single attempt handed back to run
    outcome,       \* what the call handed to its caller
    children,      \* the child process of each attempt
    elapsed,       \* time since the start of the latest attempt was taken
    overrun,       \* the current child was still running when the timeout had elapsed
    pipe,          \* unread lines in the child's stdout / stderr pipe
    childOpen,     \* the child still holds the write end of the pipe
    written,       \* lines written by the current child
    ran,           \* time the current child has been running
    wrote,         \* the lines the current child wrote to each stream, in order
    partial,       \* the last line in the pipe has no newline yet
    childBlocked,  \* the stream the child is blocked writing to, or "none"
    stdinPipe,     \* lines in the child's stdin pipe that the child has not read
    stdinLeft,     \* _run_live: lines of stdin that proc.stdin.write has yet to write
    parentOpen,    \* the caller's ends of the latest child's pipes that are open
    registered,    \* _run_live: streams registered with the selector
    open_streams,  \* _run_live: the local `open_streams`
    stdout_lines,  \* _run_live: the local `stdout_lines`
    stderr_lines,  \* _run_live: the local `stderr_lines`
    mirror,        \* _run_live: what was written to sys.stdout / sys.stderr
    reading,       \* _run_live: the stream whose readline() has not returned, or "none"
    pending,       \* _run_live: the events of this pass still to be handled
    environ,       \* os.environ of the calling process
    getcwd,        \* os.getcwd() of the calling process
    childEnv,      \* the environment the latest child was started with
    childCwd,      \* the directory the latest child was started in
    prevStack,     \* cd: the local `prev` of every scope that is open, innermost last
    entered,       \* cd: the directory that was current when each open scope was entered
    raising,       \* an exception is propagating out of the caller's with-blocks
    left,          \* pipe: the left operand Result
    right,         \* pipe: the right operand, when it is a Result
    rightCall,     \* pipe: the arguments of the call that produced `right`
    chained        \* pipe: the left operand is itself the Result of a pipe step

callVars == <<call, attempt, attempts, sleeps, result, last_err, ret, outcome>>
procVars == <<children, elapsed, overrun, pipe, childOpen, written>>
ioVars == <<ran, wrote, partial, childBlocked, stdinPipe, stdinLeft, parentOpen>>
liveVars == <<registered, open_streams, stdout_lines, stderr_lines, mirror, reading, pending>>
envVars == <<environ, getcwd, childEnv, childCwd>>
cdVars == <<prevStack, entered, raising>>
pipeVars == <<left, right, rightCall, chained>>
vars == <<pc, callVars, procVars, ioVars, liveVars, envVars, cdVars, pipeVars>>

\* ---------------------------------------------------------------- Result
Ok(r) == r.code = 0

\* The Result built at the end of the blocking-capture path of _run_once.
CaptureResult(out, err, code, command, check, timeout, cwd, env) ==
    [stdout |-> out, stderr |-> err, code |-> code, command |-> command,
     kwargs |-> [check |-> check, timeout |-> timeout, cwd |-> cwd, env |-> env]]

\* The Result built at the end of _run_live.
LiveResult(out_lines, err_lines, code, command, timeout, cwd) ==
    [stdout |-> out_lines, stderr |-> err_lines, code |-> code, command |-> command,
     kwargs |-> [timeout |-> timeout, cwd |-> cwd]]

\* The Result built at the end of run_async; `proc.returncode or 0`.
AsyncResult(out, err, returncode, command, check, timeout, cwd, env) ==
    [stdout |-> out, stderr |-> err,
     code |-> IF returncode = None THEN 0 ELSE returncode[1],
     command |-> command,
     kwargs |-> [check |-> check, timeout |-> timeout, cwd |-> cwd, env |-> env]]

\* ZapError(result): the exception keeps the Result and copies its code.
ZapError(r) == [kind |-> "ZapError", result |-> Some(r), code |-> Some(r.code)]
TimeoutErr == [kind |-> "TimeoutError", result |-> None, code |-> None]
Returned(r) == [kind |-> "return", result |-> Some(r), code |-> Some(r.code)]
Cancelled == [kind |-> "Cancelled", result |-> None, code |-> None]
\* proc.stdin.write / close on a pipe whose reader is gone.
BrokenPipe == [kind |-> "BrokenPipeError", result |-> None, code |-> None]
Nothing == [kind |-> "none", result |-> None, code |-> None]

\* ---------------------------------------------------------------- child
NoChild == [state |-> "none", killed |-> FALSE, code |-> None]
Running == [state |-> "running", killed |-> FALSE, code |-> None]
Gone == [state |-> "reaped", killed |-> FALSE, code |-> None]

ChildIdx == IF call.entry = "run" THEN attempt ELSE 0
Child == children[ChildIdx]

NoCall ==
    [entry |-> "none", command |-> "", check |-> DefaultCheck, timeout |-> None,
     cwd |-> None, env |-> None, stdin |-> None, live |-> FALSE,
     retries |-> DefaultRetries, delay |-> DefaultDelay, piped |-> "no"]

EmptyPipes == [s \in Streams |-> <<>>]
NoPartial == [s \in Streams |-> FALSE]

\* The program the command names: how many lines the child writes at most.
Lines(command) == IF command = "chatty" THEN MaxLiveLines ELSE MaxLines

\* The deadline tests of the three paths.
Expired == call.timeout # None /\ elapsed > call.timeout[1]
LiveExpired == Truthy(call.timeout) /\ elapsed > call.timeout[1]

\* The runner sits in a timed wait whose deadline has passed: its next step is
\* the timeout branch, before the child gets to do anything more.
DeadlineDue ==
    \/ pc = "capture_comm" /\ Expired
    \/ pc = "async_comm" /\ Expired
    \/ pc = "live_loop" /\ open_streams > 0 /\ LiveExpired

AttemptActive ==
    pc \in {"capture_comm", "capture_killed", "live_loop", "live_read", "live_killed",
            "live_wait", "async_comm", "async_wait"}

\* The child gets to take a step.  It already runs while _run_live writes stdin.
ChildActive ==
    /\ AttemptActive \/ pc = "live_stdin"
    /\ Child.state = "running"
    /\ ~DeadlineDue

\* Faulty variant: {**env, **os.environ}, where the parent's value wins.
FullEnvParentWins(os_environ, env) ==
    [k \in DOMAIN os_environ \cup DOMAIN env |->
        IF k \in DOMAIN os_environ THEN os_environ[k] ELSE env[k]]

\* {**os.environ, **env}
FullEnv(os_environ, env) ==
    [k \in DOMAIN os_environ \cup DOMAIN env |->
        IF k \in DOMAIN env THEN env[k] ELSE os_environ[k]]

\* Faulty variant: the deadline keeps counting from the start of an earlier attempt.
ClockKept(e) == e

\* start = time.monotonic(); subprocess.run and wait_for likewise count from
\* the moment they are called.
ClockRestart(e) == 0

\* Popen / create_subprocess: one new child with both pipes open, started with
\* env=full_env (the parent's environment when that is None) and cwd=cwd (the
\* parent's directory when that is None).  The process objects of earlier
\* attempts were dropped when their _run_once returned; of those the model
\* keeps only whether the child was reaped.
Spawn(i) ==
    /\ children' = [j \in DOMAIN children |->
                      IF j = i THEN Running
                      ELSE IF children[j].state = "reaped" THEN Gone
                      ELSE children[j]]
    /\ elapsed' = ClockRestart(elapsed)
    /\ overrun' = FALSE
    /\ pipe' = EmptyPipes
    /\ childOpen' = [s \in Streams |-> TRUE]
    /\ written' = 0
    /\ ran' = 0
    /\ wrote' = EmptyPipes
    /\ partial' = NoPartial
    /\ childBlocked' = "none"
    /\ stdinPipe' = 0
    /\ LET full_env == IF call.env # None THEN Some(FullEnv(environ, call.env[1]))
                       ELSE None
       IN childEnv' = IF full_env = None THEN Some(environ) ELSE full_env
    /\ childCwd' = IF call.cwd = None THEN Some(getcwd) ELSE call.cwd

\* proc.kill(): the child is dead at once, its pipe ends closed, not yet reaped.
Kill(i) ==
    /\ children' = [children EXCEPT ![i] =
                      IF @.state = "running"
                      THEN [state |-> "zombie", killed |-> TRUE, code |-> None]
                      ELSE @]
    /\ childOpen' = [s \in Streams |-> FALSE]
    /\ childBlocked' = "none"

\* Faulty variant: the wait returns without the child having been collected.
ReapedNot(c) == c

\* proc.wait() returning: the child's exit status has been collected.
Reaped(c) == [c EXCEPT !.state = "reaped"]

\* The attempt's function returns or raises: its locals and the data left in
\* the pipes are gone.
EndAttempt ==
    /\ written' = 0
    /\ pipe' = EmptyPipes
    /\ childOpen' = [s \in Streams |-> FALSE]
    /\ partial' = NoPartial
    /\ childBlocked' = "none"
    /\ stdinPipe' = 0
    /\ stdinLeft' = 0

\* The pipe buffer of the stream has no room.  communicate() moves what the
\* child writes into memory as it arrives; on the live path a line stays in
\* the pipe until readline() takes it.
Full(s) == call.live /\ Len(pipe[s]) >= PipeCap

\* The child writes one more line to one of its streams.
ChildWrite(s) ==
    /\ ChildActive
    /\ childOpen[s] /\ written < Lines(call.command)
    /\ childBlocked \in {"none", s} /\ ~Full(s) /\ ~partial[s]
    /\ written' = written + 1
    /\ pipe' = [pipe EXCEPT ![s] = Append(@, written + 1)]
    /\ wrote' = [wrote EXCEPT ![s] = Append(@, written + 1)]
    /\ childBlocked' = "none"
    /\ UNCHANGED <<pc, callVars, liveVars, envVars, cdVars, pipeVars, children, elapsed,
                   overrun, childOpen, ran, partial, stdinPipe, stdinLeft, parentOpen>>

\* The child writes the beginning of a line and not yet its newline.
ChildWritePartial(s) ==
    /\ ChildActive
    /\ childOpen[s] /\ written < Lines(call.command)
    /\ childBlocked = "none" /\ ~Full(s) /\ ~partial[s]
    /\ written' = written + 1
    /\ pipe' = [pipe EXCEPT ![s] = Append(@, written + 1)]
    /\ wrote' = [wrote EXCEPT ![s] = Append(@, written + 1)]
    /\ partial' = [partial EXCEPT ![s] = TRUE]
    /\ UNCHANGED <<pc, callVars, liveVars, envVars, cdVars, pipeVars, children, elapsed,
                   overrun, childOpen, ran, childBlocked, stdinPipe, stdinLeft, parentOpen>>

\* The child writes the newline of the line it began.
ChildEndLine(s) ==
    /\ ChildActive
    /\ childOpen[s] /\ childBlocked = "none" /\ partial[s]
    /\ partial' = [partial EXCEPT ![s] = FALSE]
    /\ UNCHANGED <<pc, callVars, procVars, liveVars, envVars, cdVars, pipeVars,
                   ran, wrote, childBlocked, stdinPipe, stdinLeft, parentOpen>>

\* The child calls write on a stream whose pipe is full: it sleeps in that
\* write until the pipe is read.
ChildBlock(s) ==
    /\ ChildActive
    /\ childOpen[s] /\ written < Lines(call.command)
    /\ childBlocked = "none" /\ Full(s) /\ ~partial[s]
    /\ childBlocked' = s
    /\ UNCHANGED <<pc, callVars, procVars, liveVars, envVars, cdVars, pipeVars,
                   ran, wrote, partial, stdinPipe, stdinLeft, parentOpen>>

\* The child reads a line of its stdin.
ChildRead ==
    /\ ChildActive
    /\ childBlocked = "none" /\ stdinPipe > 0
    /\ stdinPipe' = stdinPipe - 1
    /\ UNCHANGED <<pc, callVars, procVars, liveVars, envVars, cdVars, pipeVars,
                   ran, wrote, partial, childBlocked, stdinLeft, parentOpen>>

\* The child closes one of its streams and keeps running.
ChildClose(s) ==
    /\ ChildActive
    /\ childOpen[s] /\ childBlocked = "none"
    /\ childOpen' = [childOpen EXCEPT ![s] = FALSE]
    /\ UNCHANGED <<pc, callVars, liveVars, envVars, cdVars, pipeVars, children, elapsed,
                   overrun, pipe, written, ioVars>>

\* The child exits with code c; the kernel closes its pipe ends.
ChildExit(c) ==
    /\ ChildActive
    /\ childBlocked = "none"
    /\ children' = [children EXCEPT ![ChildIdx] =
                      [state |-> "zombie", killed |-> FALSE, code |-> Some(c)]]
    /\ childOpen' = [s \in Streams |-> FALSE]
    /\ stdinPipe' = 0
    /\ UNCHANGED <<pc, callVars, liveVars, envVars, cdVars, pipeVars, elapsed, overrun,
                   pipe, written, ran, wrote, partial, childBlocked, stdinLeft, parentOpen>>

\* Time passes while the child runs and the runner counts.  The clock is only
\* ever compared with the timeout, so it is followed until it has passed the
\* timeout and no further.
Tick ==
    /\ AttemptActive /\ Child.state = "running" /\ ~DeadlineDue
    /\ call.timeout # None /\ elapsed <= call.timeout[1]
    /\ elapsed' = elapsed + 1
    /\ ran' = ran + 1
    /\ overrun' = (overrun \/ (call.timeout # None /\ elapsed + 1 > call.timeout[1]))
    /\ UNCHANGED <<pc, callVars, liveVars, envVars, cdVars, pipeVars, children, pipe,
                   childOpen, written, wrote, partial, childBlocked, stdinPipe,
                   stdinLeft, parentOpen>>

\* ---------------------------------------------------------------- run
\* A call of run(command, check=, timeout=, cwd=, env=, stdin=, live=, retries=, delay=).
StartRun(command, check, timeout, cwd, env, stdin, live, retries, delay, piped) ==
    /\ call' = [entry |-> "run", command |-> command, check |-> check,
                timeout |-> timeout, cwd |-> cwd, env |-> env, stdin |-> stdin,
                live |-> live, retries |-> retries, delay |-> delay, piped |-> piped]
    /\ attempt' = 0
    /\ attempts' = 0
    /\ sleeps' = 0
    /\ result' = None
    /\ last_err' = None
    /\ ret' = Nothing
    /\ outcome' = Nothing
    /\ children' = [i \in 0..MaxRetries |-> NoChild]
    /\ pc' = "for"

CallRun(check, timeout, live, retries) ==
    /\ pc = "idle"
    /\ StartRun("c1", check, timeout, None, None, None, live, retries, DefaultDelay, "no")
    /\ UNCHANGED <<elapsed, overrun, pipe, childOpen, written, ioVars, liveVars,
                   envVars, cdVars, pipeVars>>

\* Faulty variant: range(retries), one attempt short.
RangeExhaustedShort(i, retries) == i >= retries

\* range(1 + retries) has no value left for the loop variable.
RangeExhausted(i, retries) == i >= 1 + retries

\* Faulty variant: sleeps before the first attempt too.
SleepsAlways(i) == TRUE

\* `if attempt > 0: time.sleep(delay)`
SleepsFirst(i) == i > 0

\* for attempt in range(1 + retries): the loop header and the test before the sleep.
LoopHead ==
    /\ pc = "for"
    /\ pc' = IF RangeExhausted(attempt, call.retries) THEN "after_loop"
             ELSE IF SleepsFirst(attempt) THEN "sleep" ELSE "try"
    /\ UNCHANGED <<callVars, procVars, ioVars, liveVars, envVars, cdVars, pipeVars>>

\* The clock d later, followed no further than just past the timeout.
Later(e, d) ==
    IF call.timeout = None THEN e
    ELSE IF e + d > call.timeout[1] THEN call.timeout[1] + 1 ELSE e + d

\* time.sleep(delay)
Sleep ==
    /\ pc = "sleep"
    /\ sleeps' = sleeps + 1
    /\ elapsed' = Later(elapsed, call.delay)
    /\ pc' = "try"
    /\ UNCHANGED <<call, attempt, attempts, result, last_err, ret, outcome,
                   children, overrun, pipe, childOpen, written,
                   ioVars, liveVars, envVars, cdVars, pipeVars>>

\* _run_once, blocking-capture path: subprocess.run starts the child, with a
\* stdin pipe when input is not None.
CaptureSpawn ==
    /\ pc = "try" /\ ~call.live
    /\ attempts' = attempts + 1
    /\ Spawn(attempt)
    /\ stdinLeft' = 0
    /\ parentOpen' = Streams \cup (IF call.stdin # None THEN {"in"} ELSE {})
    /\ pc' = "capture_comm"
    /\ UNCHANGED <<call, attempt, sleeps, result, last_err, ret, outcome, liveVars,
                   environ, getcwd, cdVars, pipeVars>>

\* subprocess.run: communicate() saw end-of-file on both pipes and the child's
\* exit; leaving `with Popen(...)` closes the pipes.
CaptureDone ==
    /\ pc = "capture_comm"
    /\ Child.state = "zombie" /\ ~Child.killed
    /\ children' = [children EXCEPT ![attempt] = Reaped(@)]
    /\ ret' = Returned(CaptureResult(pipe["out"], pipe["err"], Child.code[1],
                                     call.command, FALSE, call.timeout, call.cwd, call.env))
    /\ EndAttempt
    /\ parentOpen' = {}
    /\ pc' = "ret"
    /\ UNCHANGED <<call, attempt, attempts, sleeps, result, last_err, outcome,
                   elapsed, overrun, ran, wrote, liveVars, envVars, cdVars, pipeVars>>

\* subprocess.run: communicate(timeout=) raised TimeoutExpired; process.kill().
CaptureTimeoutKill ==
    /\ pc = "capture_comm"
    /\ Expired
    /\ Kill(attempt)
    /\ pc' = "capture_killed"
    /\ UNCHANGED <<callVars, elapsed, overrun, pipe, written, ran, wrote, partial,
                   stdinPipe, stdinLeft, parentOpen, liveVars, envVars, cdVars, pipeVars>>

\* subprocess.run: process.wait() after the kill.
CaptureWait(c) == Reaped(c)

\* subprocess.run: process.wait() after the kill, the pipes closed on leaving
\* `with Popen(...)`, then `raise TimeoutError ... from e`.
CaptureReapRaise ==
    /\ pc = "capture_killed"
    /\ children' = [children EXCEPT ![attempt] = CaptureWait(@)]
    /\ ret' = TimeoutErr
    /\ EndAttempt
    /\ parentOpen' = {}
    /\ pc' = "ret"
    /\ UNCHANGED <<call, attempt, attempts, sleeps, result, last_err, outcome,
                   elapsed, overrun, ran, wrote, liveVars, envVars, cdVars, pipeVars>>

\* Faulty variant: `attempt <= retries`, which also absorbs the final timeout.
AttemptsRemainAlways(i, retries) == i <= retries

\* `if attempt < retries:` in the except clause.
AttemptsRemain(i, retries) == i < retries

\* run: `except TimeoutError:` around _run_once.
HandleTimeout ==
    /\ pc = "ret" /\ ret.kind = "TimeoutError"
    /\ IF AttemptsRemain(attempt, call.retries)
       THEN /\ last_err' = Some(TimeoutErr)
            /\ attempt' = attempt + 1
            /\ pc' = "for"
            /\ outcome' = outcome
       ELSE /\ outcome' = TimeoutErr
            /\ pc' = "done"
            /\ UNCHANGED <<last_err, attempt>>
    /\ ret' = Nothing
    /\ UNCHANGED <<call, attempts, sleeps, result, procVars, ioVars, liveVars,
                   envVars, cdVars, pipeVars>>

\* Faulty variant: `if not retries: break`, which retries after a success.
BreaksLoopNever(r, retries) == retries = 0

\* `if result.ok or not retries: break`
BreaksLoop(r, retries) == Ok(r) \/ retries = 0

\* run: _run_once returned a Result; the two tests at the end of the loop body.
HandleResult ==
    /\ pc = "ret" /\ ret.kind = "return"
    /\ result' = ret.result
    /\ LET r == ret.result[1] IN
       IF BreaksLoop(r, call.retries)
       THEN /\ pc' = "after_loop"
            /\ UNCHANGED <<attempt, last_err>>
       ELSE /\ last_err' = IF ~Ok(r) /\ attempt < call.retries
                           THEN Some(ZapError(r)) ELSE last_err
            /\ attempt' = attempt + 1
            /\ pc' = "for"
    /\ ret' = Nothing
    /\ UNCHANGED <<call, attempts, sleeps, outcome, procVars, ioVars, liveVars,
                   envVars, cdVars, pipeVars>>

\* Faulty variant: raises on failure whatever check is.
RaisesUnchecked(check, r) == ~Ok(r)

\* `if check and not result.ok: raise ZapError(result)`
Raises(check, r) == check /\ ~Ok(r)

\* run: the check policy after the loop, then `return result`.
AfterLoop ==
    /\ pc = "after_loop"
    /\ result # None
    /\ outcome' = IF Raises(call.check, result[1])
                  THEN ZapError(result[1]) ELSE Returned(result[1])
    /\ pc' = "done"
    /\ UNCHANGED <<call, attempt, attempts, sleeps, result, last_err, ret,
                   procVars, ioVars, liveVars, envVars, cdVars, pipeVars>>

\* ---------------------------------------------------------------- _run_live
\* _run_once, live path: Popen (with a stdin pipe only if stdin is truthy), both
\* streams registered, open_streams = 2.  With stdin to write, the write comes
\* before the loop.
LiveSpawn ==
    /\ pc = "try" /\ call.live
    /\ attempts' = attempts + 1
    /\ Spawn(attempt)
    /\ registered' = Streams
    /\ open_streams' = 2
    /\ stdout_lines' = <<>>
    /\ stderr_lines' = <<>>
    /\ mirror' = EmptyPipes
    /\ reading' = "none"
    /\ pending' = {}
    /\ stdinLeft' = IF TruthyText(call.stdin) THEN Len(call.stdin[1]) ELSE 0
    /\ parentOpen' = Streams \cup (IF TruthyText(call.stdin) THEN {"in"} ELSE {})
    /\ pc' = IF TruthyText(call.stdin) THEN "live_stdin" ELSE "live_loop"
    /\ UNCHANGED <<call, attempt, sleeps, result, last_err, ret, outcome,
                   environ, getcwd, cdVars, pipeVars>>

\* proc.stdin.write(stdin) / the flush in close(): one more line goes into the
\* child's stdin pipe, once the pipe has room for it.
LiveWriteStdin ==
    /\ pc = "live_stdin"
    /\ stdinLeft > 0 /\ Child.state = "running" /\ stdinPipe < PipeCap
    /\ stdinLeft' = stdinLeft - 1
    /\ stdinPipe' = stdinPipe + 1
    /\ UNCHANGED <<pc, callVars, procVars, liveVars, envVars, cdVars, pipeVars,
                   ran, wrote, partial, childBlocked, parentOpen>>

\* proc.stdin.close() after everything was written; then the loop is entered.
LiveCloseStdin ==
    /\ pc = "live_stdin"
    /\ stdinLeft = 0
    /\ parentOpen' = parentOpen \ {"in"}
    /\ pc' = "live_loop"
    /\ UNCHANGED <<callVars, procVars, liveVars, envVars, cdVars, pipeVars,
                   ran, wrote, partial, childBlocked, stdinPipe, stdinLeft>>

\* The child is gone with stdin still to write: BrokenPipeError leaves _run_live
\* and run, which catches TimeoutError only.
LiveStdinBroken ==
    /\ pc = "live_stdin"
    /\ stdinLeft > 0 /\ Child.state # "running"
    /\ outcome' = BrokenPipe
    /\ pc' = "done"
    /\ UNCHANGED <<call, attempt, attempts, sleeps, result, last_err, ret,
                   procVars, ioVars, liveVars, envVars, cdVars, pipeVars>>

\* sel.close() and the end of _run_live: the selector and the locals are gone.
EndLive ==
    /\ registered' = {}
    /\ open_streams' = 0
    /\ stdout_lines' = <<>>
    /\ stderr_lines' = <<>>
    /\ reading' = "none"
    /\ pending' = {}

\* sel.select(timeout=0.1): the registered streams that have data or end-of-file.
Events == {s \in registered : pipe[s] # <<>> \/ ~childOpen[s]}

\* readline() on the stream does not return: all there is to read is the
\* beginning of a line, and the child can still write the rest.
WouldBlock(s) == Len(pipe[s]) = 1 /\ partial[s] /\ childOpen[s]

\* Faulty variant: a stream the child has closed counts as at end-of-file even
\* with lines still unread.
AtEofEarly(s) == ~childOpen[s]

\* `if not line:` readline() returned the empty string.
AtEof(s) == pipe[s] = <<>>

\* Faulty variant: every line is appended to stdout_lines.
ListOfStdout(s) == "out"

\* `if key.fileobj is proc.stdout: ... stdout_lines.append(line) else: ...
\* stderr_lines.append(line)`: the list a line read from the stream goes to.
ListOf(s) == IF s = "out" THEN "out" ELSE "err"

\* `if key.fileobj is proc.stdout: sys.stdout.write(line) else:
\* sys.stderr.write(line)`: the caller's stream a line is mirrored to.
MirrorOf(s) == IF s = "out" THEN "out" ELSE "err"

\* seq with the first unread line of each of the streams in S appended.
Gather(seq, S) ==
    LET a == IF "out" \in S THEN Append(seq, Head(pipe["out"])) ELSE seq
    IN IF "err" \in S THEN Append(a, Head(pipe["err"])) ELSE a

\* The body of `for key, _ in events:` for the streams S whose readline()
\* returns: a line is mirrored and appended, an empty read unregisters.
LiveRead(S) ==
    LET eof == {s \in S : AtEof(s)}
        got == S \ eof
    IN /\ pipe' = [s \in Streams |-> IF s \in got THEN Tail(pipe[s]) ELSE pipe[s]]
       /\ partial' = [s \in Streams |->
                         IF s \in got /\ Len(pipe[s]) = 1 THEN FALSE ELSE partial[s]]
       /\ registered' = registered \ eof
       /\ open_streams' = open_streams - Cardinality(eof)
       /\ mirror' = [t \in Streams |-> Gather(mirror[t], {s \in got : MirrorOf(s) = t})]
       /\ stdout_lines' = Gather(stdout_lines, {s \in got : ListOf(s) = "out"})
       /\ stderr_lines' = Gather(stderr_lines, {s \in got : ListOf(s) = "err"})

\* One pass of the while loop that is not past the deadline: select, then one
\* readline per ready stream, in the order select returned them.  A readline
\* that does not return keeps the runner inside the pass.
LiveIteration ==
    /\ pc = "live_loop" /\ open_streams > 0
    /\ ~LiveExpired
    /\ LET ev == Events
           stuck == {s \in ev : WouldBlock(s)}
       IN IF stuck = {}
          THEN /\ LiveRead(ev)
               /\ reading' = "none"
               /\ pending' = {}
               /\ pc' = "live_loop"
          ELSE \E b \in stuck : \E before \in SUBSET (ev \ stuck) :
                  /\ LiveRead(before)
                  /\ reading' = b
                  /\ pending' = ev \ (before \cup {b})
                  /\ pc' = "live_read"
    /\ UNCHANGED <<callVars, envVars, cdVars, pipeVars, children, elapsed, overrun,
                   childOpen, written, ran, wrote, childBlocked, stdinPipe, stdinLeft,
                   parentOpen>>

\* The readline() the runner was blocked in returns, and the pass goes on with
\* the events that were still to be handled.
LiveReadReturn ==
    /\ pc = "live_read"
    /\ ~WouldBlock(reading)
    /\ LET stuck == {s \in pending : WouldBlock(s)}
       IN IF stuck = {}
          THEN /\ LiveRead({reading} \cup pending)
               /\ reading' = "none"
               /\ pending' = {}
               /\ pc' = "live_loop"
          ELSE \E b \in stuck :
                  /\ LiveRead({reading} \cup (pending \ stuck))
                  /\ reading' = b
                  /\ pending' = stuck \ {b}
                  /\ pc' = "live_read"
    /\ UNCHANGED <<callVars, envVars, cdVars, pipeVars, children, elapsed, overrun,
                   childOpen, written, ran, wrote, childBlocked, stdinPipe, stdinLeft,
                   parentOpen>>

\* The deadline test at the top of the loop came out true: proc.kill().
LiveTimeoutKill ==
    /\ pc = "live_loop" /\ open_streams > 0
    /\ LiveExpired
    /\ Kill(attempt)
    /\ pc' = "live_killed"
    /\ UNCHANGED <<callVars, elapsed, overrun, pipe, written, ran, wrote, partial,
                   stdinPipe, stdinLeft, parentOpen, liveVars, envVars, cdVars, pipeVars>>

\* Faulty variant: raises without waiting for the killed child.
LiveWaitSkipped(c) == c

\* proc.wait() after the kill.
LiveWait(c) == Reaped(c)

\* proc.wait(); sel.close(); raise TimeoutError.  Nothing closes proc.stdout and
\* proc.stderr: they stay open for as long as the Popen object lives.
LiveReapRaise ==
    /\ pc = "live_killed"
    /\ children' = [children EXCEPT ![attempt] = LiveWait(@)]
    /\ ret' = TimeoutErr
    /\ EndAttempt
    /\ EndLive
    /\ pc' = "ret"
    /\ UNCHANGED <<call, attempt, attempts, sleeps, result, last_err, outcome,
                   elapsed, overrun, ran, wrote, parentOpen, mirror,
                   envVars, cdVars, pipeVars>>

\* `while open_streams > 0` is false: the loop is left for the final proc.wait().
LiveLoopExit ==
    /\ pc = "live_loop" /\ open_streams = 0
    /\ pc' = "live_wait"
    /\ UNCHANGED <<callVars, procVars, ioVars, liveVars, envVars, cdVars, pipeVars>>

\* proc.wait() returned (it has no timeout); sel.close(); return Result(...).
\* Nothing closes proc.stdout and proc.stderr here either.
LiveWaitReturn ==
    /\ pc = "live_wait"
    /\ Child.state = "zombie"
    /\ children' = [children EXCEPT ![attempt] = Reaped(@)]
    /\ ret' = Returned(LiveResult(stdout_lines, stderr_lines, Child.code[1],
                                  call.command, call.timeout, call.cwd))
    /\ EndAttempt
    /\ EndLive
    /\ pc' = "ret"
    /\ UNCHANGED <<call, attempt, attempts, sleeps, result, last_err, outcome,
                   elapsed, overrun, ran, wrote, parentOpen, mirror,
                   envVars, cdVars, pipeVars>>

\* The Popen object _run_live left behind is finalised, which closes the pipes
\* it still holds.  When that happens is up to the interpreter: at once where
\* objects are reference-counted and nothing else refers to the frame, later
\* where a traceback or a tracing collector keeps it.
CollectGarbage ==
    /\ pc \in {"ret", "for", "sleep", "try", "after_loop", "done"}
    /\ parentOpen # {}
    /\ parentOpen' = {}
    /\ UNCHANGED <<pc, callVars, procVars, liveVars, envVars, cdVars, pipeVars,
                   ran, wrote, partial, childBlocked, stdinPipe, stdinLeft>>

\* ---------------------------------------------------------------- run_async
\* A call of run_async(command, check=, timeout=, cwd=, env=, stdin=).
StartRunAsync(check, timeout, cwd, env) ==
    /\ call' = [entry |-> "run_async", command |-> "c1", check |-> check,
                timeout |-> timeout, cwd |-> cwd, env |-> env, stdin |-> None,
                live |-> FALSE, retries |-> DefaultRetries, delay |-> DefaultDelay,
                piped |-> "no"]
    /\ attempt' = 0
    /\ attempts' = 0
    /\ sleeps' = 0
    /\ result' = None
    /\ last_err' = None
    /\ ret' = Nothing
    /\ outcome' = Nothing
    /\ children' = [i \in 0..MaxRetries |-> NoChild]
    /\ pc' = "async_spawn"

CallRunAsync(check, timeout) ==
    /\ pc = "idle"
    /\ StartRunAsync(check, timeout, None, None)
    /\ UNCHANGED <<elapsed, overrun, pipe, childOpen, written, ioVars, liveVars,
                   envVars, cdVars, pipeVars>>

\* await asyncio.create_subprocess_shell / _exec, with a stdin pipe only if
\* stdin is truthy.
AsyncSpawn ==
    /\ pc = "async_spawn"
    /\ attempts' = attempts + 1
    /\ Spawn(0)
    /\ stdinLeft' = 0
    /\ parentOpen' = Streams \cup (IF TruthyText(call.stdin) THEN {"in"} ELSE {})
    /\ pc' = "async_comm"
    /\ UNCHANGED <<call, attempt, sleeps, result, last_err, ret, outcome, liveVars,
                   environ, getcwd, cdVars, pipeVars>>

\* await wait_for(proc.communicate(...)) completed, the pipe transports closed
\* at end-of-file: Result, then the check policy.
AsyncCommDone ==
    /\ pc = "async_comm"
    /\ Child.state = "zombie" /\ ~Child.killed
    /\ children' = [children EXCEPT ![0] = Reaped(@)]
    /\ LET r == AsyncResult(pipe["out"], pipe["err"], Child.code, call.command,
                            call.check, call.timeout, call.cwd, call.env)
       IN /\ result' = Some(r)
          /\ outcome' = IF Raises(call.check, r) THEN ZapError(r) ELSE Returned(r)
    /\ EndAttempt
    /\ parentOpen' = {}
    /\ pc' = "done"
    /\ UNCHANGED <<call, attempt, attempts, sleeps, last_err, ret,
                   elapsed, overrun, ran, wrote, liveVars, envVars, cdVars, pipeVars>>

\* wait_for raised asyncio.TimeoutError; proc.kill(); on to `await proc.wait()`.
AsyncTimeoutKill ==
    /\ pc = "async_comm"
    /\ Expired
    /\ Kill(0)
    /\ pc' = "async_wait"
    /\ UNCHANGED <<callVars, elapsed, overrun, pipe, written, ran, wrote, partial,
                   stdinPipe, stdinLeft, parentOpen, liveVars, envVars, cdVars, pipeVars>>

\* await proc.wait() after the kill.
AsyncWait(c) == Reaped(c)

\* await proc.wait() returned, which asyncio lets happen once the child has
\* exited and its pipes are disconnected; raise TimeoutError.
AsyncReapRaise ==
    /\ pc = "async_wait"
    /\ children' = [children EXCEPT ![0] = AsyncWait(@)]
    /\ outcome' = TimeoutErr
    /\ EndAttempt
    /\ parentOpen' = {}
    /\ pc' = "done"
    /\ UNCHANGED <<call, attempt, attempts, sleeps, result, last_err, ret,
                   elapsed, overrun, ran, wrote, liveVars, envVars, cdVars, pipeVars>>

\* What run_async does to its child when CancelledError is thrown into it:
\* no handler catches it (the only handler is `except asyncio.TimeoutError`).
OnCancel(c) == c

\* The task awaiting run_async is cancelled at one of its await points.
Cancel ==
    /\ pc \in {"async_spawn", "async_comm", "async_wait"}
    /\ children' = [children EXCEPT ![0] = OnCancel(@)]
    /\ outcome' = Cancelled
    /\ pc' = "done"
    /\ UNCHANGED <<call, attempt, attempts, sleeps, result, last_err, ret,
                   elapsed, overrun, pipe, childOpen, written, ioVars, liveVars,
                   envVars, cdVars, pipeVars>>

\* ---------------------------------------------------------------- Result.__or__
\* run(cmd, **kwargs): a keyword the dict lacks takes the parameter's default.
Param(kw, k, default) == IF k \in DOMAIN kw THEN kw[k] ELSE default

\* Faulty variant: {"stdin": ..., "check": False, **other._kwargs}, where the
\* stored options win.
PipeKwargsKept(kw, text) ==
    [k \in {"stdin", "check"} \cup DOMAIN kw |->
        IF k \in DOMAIN kw THEN kw[k]
        ELSE IF k = "stdin" THEN Some(text) ELSE FALSE]

\* {**other._kwargs, "stdin": self.stdout, "check": False}
PipeKwargs(kw, text) ==
    [k \in DOMAIN kw \cup {"stdin", "check"} |->
        IF k = "stdin" THEN Some(text)
        ELSE IF k = "check" THEN FALSE
        ELSE kw[k]]

\* R | "cmd": run(other, stdin=self.stdout, check=False)
PipeStr(cmd) ==
    /\ pc = "idle" /\ left # None
    /\ StartRun(cmd, FALSE, None, None, None, Some(left[1].stdout), FALSE,
                DefaultRetries, DefaultDelay, "str")
    /\ UNCHANGED <<elapsed, overrun, pipe, childOpen, written, ioVars, liveVars,
                   envVars, cdVars, pipeVars>>

\* R | S: run(other._command, **kwargs)
PipeResult ==
    /\ pc = "idle" /\ left # None /\ right # None
    /\ LET kw == PipeKwargs(right[1].kwargs, left[1].stdout) IN
       StartRun(right[1].command,
                Param(kw, "check", DefaultCheck), Param(kw, "timeout", None),
                Param(kw, "cwd", None), Param(kw, "env", None),
                Param(kw, "stdin", None), Param(kw, "live", FALSE),
                Param(kw, "retries", DefaultRetries), Param(kw, "delay", DefaultDelay),
                "result")
    /\ UNCHANGED <<elapsed, overrun, pipe, childOpen, written, ioVars, liveVars,
                   envVars, cdVars, pipeVars>>

\* The caller is done with the call: its process object and what it recorded
\* about the call are dropped.
Forget ==
    /\ pc' = "idle"
    /\ call' = NoCall
    /\ attempt' = 0
    /\ attempts' = 0
    /\ sleeps' = 0
    /\ result' = None
    /\ last_err' = None
    /\ ret' = Nothing
    /\ outcome' = Nothing
    /\ children' = [i \in 0..MaxRetries |-> NoChild]
    /\ elapsed' = 0
    /\ overrun' = FALSE
    /\ ran' = 0
    /\ wrote' = EmptyPipes
    /\ mirror' = EmptyPipes
    /\ parentOpen' = {}
    /\ childEnv' = None
    /\ childCwd' = None
    /\ UNCHANGED <<pipe, childOpen, written, partial, childBlocked, stdinPipe, stdinLeft,
                   registered, open_streams, stdout_lines, stderr_lines, reading, pending,
                   environ, getcwd>>

\* (A | B) | C: the Result a pipe step returned is the left operand of the next.
Chain ==
    /\ pc = "done" /\ outcome.kind = "return" /\ call.piped # "no"
    /\ ~chained
    /\ left' = outcome.result
    /\ chained' = TRUE
    /\ Forget
    /\ UNCHANGED <<right, rightCall, cdVars>>

\* The Result that a call with arguments c hands back for a child that wrote
\* out / err and exited with code: which of the three constructors applies.
ResultOf(c, out, err, code) ==
    IF c.entry = "run_async"
    THEN AsyncResult(out, err, Some(code), c.command, c.check, c.timeout, c.cwd, c.env)
    ELSE IF c.live
    THEN LiveResult(out, err, code, c.command, c.timeout, c.cwd)
    ELSE CaptureResult(out, err, code, c.command, FALSE, c.timeout, c.cwd, c.env)

\* The calls that produced the right operand: every entry point and path, every
\* timeout, and the remaining options either all at their defaults or all set.
PipeCalls ==
    {[entry |-> e, command |-> "c2", check |-> chk, timeout |-> t,
      cwd |-> IF set THEN Some("/a") ELSE None,
      env |-> IF set THEN Some([C |-> "extra"]) ELSE None,
      stdin |-> None, live |-> (e = "run" /\ lv),
      retries |-> IF set /\ e = "run" THEN MaxRetries ELSE DefaultRetries,
      delay |-> IF set /\ e = "run" THEN DefaultDelay + 1 ELSE DefaultDelay,
      piped |-> "no"] :
        e \in {"run", "run_async"}, chk \in BOOLEAN, t \in Timeouts,
        set \in BOOLEAN, lv \in BOOLEAN}

\* ---------------------------------------------------------------- cd
\* Faulty variant: the directory is not changed back.
RestoreSkipped(prev, cur) == cur

\* `finally: os.chdir(prev)`: the directory the process is in afterwards.
RestoreTo(prev, cur) == prev

\* with cd(path): prev = os.getcwd(); os.chdir(path); the body is entered.
CdEnter(path) ==
    /\ pc = "idle" /\ ~raising
    /\ Len(prevStack) < MaxDepth
    /\ prevStack' = Append(prevStack, getcwd)
    /\ entered' = Append(entered, getcwd)
    /\ getcwd' = path
    /\ UNCHANGED <<pc, callVars, procVars, ioVars, liveVars, pipeVars,
                   environ, childEnv, childCwd, raising>>

\* with cd(path) for a path that is no directory: os.chdir(path) raises before
\* the try statement is reached, so the body is not entered.
CdEnterFail ==
    /\ pc = "idle" /\ ~raising
    /\ Len(prevStack) < MaxDepth
    /\ Missing \notin Dirs
    /\ raising' = TRUE
    /\ UNCHANGED <<pc, callVars, procVars, ioVars, liveVars, pipeVars, envVars,
                   prevStack, entered>>

\* The body of the innermost scope changes the directory itself.
BodyChdir(path) ==
    /\ pc = "idle" /\ ~raising
    /\ prevStack # <<>>
    /\ getcwd' = path
    /\ UNCHANGED <<pc, callVars, procVars, ioVars, liveVars, pipeVars,
                   environ, childEnv, childCwd, cdVars>>

\* The body of the innermost scope raises.
BodyRaise ==
    /\ pc = "idle" /\ ~raising
    /\ prevStack # <<>>
    /\ raising' = TRUE
    /\ UNCHANGED <<pc, callVars, procVars, ioVars, liveVars, pipeVars, envVars,
                   prevStack, entered>>

\* The innermost scope is left, by the end of its body or by an exception (one
\* that is propagating, or the one the call just made in the body raised): the
\* finally clause runs either way.
CdLeave ==
    /\ pc \in {"idle", "done"}
    /\ prevStack # <<>>
    /\ getcwd' = RestoreTo(prevStack[Len(prevStack)], getcwd)
    /\ prevStack' = SubSeq(prevStack, 1, Len(prevStack) - 1)
    /\ entered' = SubSeq(entered, 1, Len(entered) - 1)
    /\ UNCHANGED <<pc, callVars, procVars, ioVars, liveVars, pipeVars,
                   environ, childEnv, childCwd, raising>>

\* The caller catches the exception, at whatever depth it has reached.
Catch ==
    /\ pc = "idle" /\ raising
    /\ raising' = FALSE
    /\ UNCHANGED <<pc, callVars, procVars, ioVars, liveVars, pipeVars, envVars,
                   prevStack, entered>>

\* run(...) called with cwd= and env=, inside or outside a cd scope.
CallRunEnv(check, live, cwd, env) ==
    /\ pc = "idle" /\ ~raising
    /\ StartRun("c1", check, None, cwd, env, None, live, DefaultRetries, DefaultDelay, "no")
    /\ UNCHANGED <<elapsed, overrun, pipe, childOpen, written, ioVars, liveVars,
                   envVars, cdVars, pipeVars>>

\* await run_async(...) called with cwd= and env=.
CallRunAsyncEnv(check, cwd, env) ==
    /\ pc = "idle" /\ ~raising
    /\ StartRunAsync(check, None, cwd, env)
    /\ UNCHANGED <<elapsed, overrun, pipe, childOpen, written, ioVars, liveVars,
                   envVars, cdVars, pipeVars>>

\* The call is over and the caller goes on; what the call raised propagates.
Continue ==
    /\ pc = "done"
    /\ raising' = (outcome.kind # "return")
    /\ Forget
    /\ UNCHANGED <<prevStack, entered, pipeVars>>

\* run("chatty", live=True, ...): a single live attempt of a command that
\* writes several lines, some of them in pieces.
CallLive(check, timeout, stdin) ==
    /\ pc = "idle"
    /\ StartRun("chatty", check, timeout, None, None, stdin, TRUE, DefaultRetries,
                DefaultDelay, "no")
    /\ UNCHANGED <<elapsed, overrun, pipe, childOpen, written, ioVars, liveVars,
                   envVars, cdVars, pipeVars>>

\* The stdin texts of a live call: none, the empty text, and a text longer
\* than the pipe buffer.
StdinTexts == {None, Some(<<>>), Some([i \in 1..(PipeCap + 1) |-> i])}

\* ---------------------------------------------------------------- spec
Init ==
    /\ pc = "idle"
    /\ call = NoCall
    /\ attempt = 0
    /\ attempts = 0
    /\ sleeps = 0
    /\ result = None
    /\ last_err = None
    /\ ret = Nothing
    /\ outcome = Nothing
    /\ children = [i \in 0..MaxRetries |-> NoChild]
    /\ elapsed = 0
    /\ overrun = FALSE
    /\ pipe = EmptyPipes
    /\ childOpen = [s \in Streams |-> FALSE]
    /\ written = 0
    /\ ran = 0
    /\ wrote = EmptyPipes
    /\ partial = NoPartial
    /\ childBlocked = "none"
    /\ stdinPipe = 0
    /\ stdinLeft = 0
    /\ parentOpen = {}
    /\ registered = {}
    /\ open_streams = 0
    /\ stdout_lines = <<>>
    /\ stderr_lines = <<>>
    /\ mirror = EmptyPipes
    /\ reading = "none"
    /\ pending = {}
    /\ environ = ParentEnviron
    /\ getcwd = "/"
    /\ childEnv = None
    /\ childCwd = None
    /\ prevStack = <<>>
    /\ entered = <<>>
    /\ raising = FALSE
    /\ left = None
    /\ right = None
    /\ rightCall = None
    /\ chained = FALSE

Next ==
    \/ \E check \in BOOLEAN, timeout \in Timeouts, live \in BOOLEAN,
          retries \in 0..MaxRetries :
          CallRun(check, timeout, live, retries)
    \/ \E check \in BOOLEAN, timeout \in Timeouts : CallRunAsync(check, timeout)
    \/ LoopHead
    \/ Sleep
    \/ CaptureSpawn
    \/ CaptureDone
    \/ CaptureTimeoutKill
    \/ CaptureReapRaise
    \/ LiveSpawn
    \/ LiveIteration
    \/ LiveTimeoutKill
    \/ LiveReapRaise
    \/ LiveLoopExit
    \/ LiveWaitReturn
    \/ AsyncSpawn
    \/ AsyncCommDone
    \/ AsyncTimeoutKill
    \/ AsyncReapRaise
    \/ Cancel
    \/ HandleTimeout
    \/ HandleResult
    \/ AfterLoop
    \/ \E s \in Streams : ChildWrite(s)
    \/ \E s \in Streams : ChildClose(s)
    \/ \E c \in Codes : ChildExit(c)
    \/ Tick

Spec == Init /\ [][Next]_vars

\* A caller holding a Result R of `run("c1")` that printed one line, and possibly
\* a second Result S, about to evaluate R | "c3" or R | S, and then (R | ...) | ...
InitPipe ==
    /\ pc = "idle"
    /\ call = NoCall
    /\ attempt = 0
    /\ attempts = 0
    /\ sleeps = 0
    /\ result = None
    /\ last_err = None
    /\ ret = Nothing
    /\ outcome = Nothing
    /\ children = [i \in 0..MaxRetries |-> NoChild]
    /\ elapsed = 0
    /\ overrun = FALSE
    /\ pipe = EmptyPipes
    /\ childOpen = [s \in Streams |-> FALSE]
    /\ written = 0
    /\ ran = 0
    /\ wrote = EmptyPipes
    /\ partial = NoPartial
    /\ childBlocked = "none"
    /\ stdinPipe = 0
    /\ stdinLeft = 0
    /\ parentOpen = {}
    /\ registered = {}
    /\ open_streams = 0
    /\ stdout_lines = <<>>
    /\ stderr_lines = <<>>
    /\ mirror = EmptyPipes
    /\ reading = "none"
    /\ pending = {}
    /\ environ = ParentEnviron
    /\ getcwd = "/"
    /\ childEnv = None
    /\ childCwd = None
    /\ prevStack = <<>>
    /\ entered = <<>>
    /\ raising = FALSE
    /\ left = Some(CaptureResult(<<1>>, <<>>, 0, "c1", FALSE, None, None, None))
    /\ \/ right = None /\ rightCall = None
       \/ \E c \in PipeCalls :
             /\ right = Some(ResultOf(c, <<>>, <<>>, 0))
             /\ rightCall = Some(c)
    /\ chained = FALSE

NextPipe ==
    \/ PipeStr("c3")
    \/ PipeResult
    \/ Chain
    \/ LoopHead
    \/ CaptureSpawn
    \/ CaptureDone
    \/ CaptureTimeoutKill
    \/ CaptureReapRaise
    \/ HandleTimeout
    \/ HandleResult
    \/ AfterLoop
    \/ \E s \in Streams : ChildWrite(s)
    \/ \E s \in Streams : ChildClose(s)
    \/ \E c \in Codes : ChildExit(c)
    \/ Tick

SpecPipe == InitPipe /\ [][NextPipe]_vars

\* A single live attempt, with a child that writes lines whole or in pieces,
\* reads its stdin, and blocks when a pipe is full.
NextLive ==
    \/ \E check \in BOOLEAN, timeout \in Timeouts, stdin \in StdinTexts :
          CallLive(check, timeout, stdin)
    \/ LoopHead
    \/ LiveSpawn
    \/ LiveWriteStdin
    \/ LiveCloseStdin
    \/ LiveStdinBroken
    \/ LiveIteration
    \/ LiveReadReturn
    \/ LiveTimeoutKill
    \/ LiveReapRaise
    \/ LiveLoopExit
    \/ LiveWaitReturn
    \/ CollectGarbage
    \/ HandleTimeout
    \/ HandleResult
    \/ AfterLoop
    \/ \E s \in Streams : ChildWrite(s)
    \/ \E s \in Streams : ChildWritePartial(s)
    \/ \E s \in Streams : ChildEndLine(s)
    \/ \E s \in Streams : ChildBlock(s)
    \/ ChildRead
    \/ \E s \in Streams : ChildClose(s)
    \/ \E c \in Codes : ChildExit(c)
    \/ Tick

SpecLive == Init /\ [][NextLive]_vars

\* A caller that opens and leaves cd scopes, calls run and run_async inside
\* and outside of them, and starts from either of two environments.
InitEnv ==
    /\ pc = "idle"
    /\ call = NoCall
    /\ attempt = 0
    /\ attempts = 0
    /\ sleeps = 0
    /\ result = None
    /\ last_err = None
    /\ ret = Nothing
    /\ outcome = Nothing
    /\ children = [i \in 0..MaxRetries |-> NoChild]
    /\ elapsed = 0
    /\ overrun = FALSE
    /\ pipe = EmptyPipes
    /\ childOpen = [s \in Streams |-> FALSE]
    /\ written = 0
    /\ ran = 0
    /\ wrote = EmptyPipes
    /\ partial = NoPartial
    /\ childBlocked = "none"
    /\ stdinPipe = 0
    /\ stdinLeft = 0
    /\ parentOpen = {}
    /\ registered = {}
    /\ open_streams = 0
    /\ stdout_lines = <<>>
    /\ stderr_lines = <<>>
    /\ mirror = EmptyPipes
    /\ reading = "none"
    /\ pending = {}
    /\ environ \in {ParentEnviron, [A |-> "parent"]}
    /\ getcwd = "/"
    /\ childEnv = None
    /\ childCwd = None
    /\ prevStack = <<>>
    /\ entered = <<>>
    /\ raising = FALSE
    /\ left = None
    /\ right = None
    /\ rightCall = None
    /\ chained = FALSE

NextEnv ==
    \/ \E check \in BOOLEAN, live \in BOOLEAN, d \in {None, Some("/a")},
          env \in {None} \cup {Some(m) : m \in EnvMappings} :
          CallRunEnv(check, live, d, env)
    \/ \E check \in BOOLEAN, d \in {None, Some("/a")},
          env \in {None} \cup {Some(m) : m \in EnvMappings} :
          CallRunAsyncEnv(check, d, env)
    \/ Continue
    \/ \E path \in Dirs : CdEnter(path)
    \/ CdEnterFail
    \/ \E path \in Dirs : BodyChdir(path)
    \/ BodyRaise
    \/ CdLeave
    \/ Catch
    \/ LoopHead
    \/ CaptureSpawn
    \/ CaptureDone
    \/ LiveSpawn
    \/ LiveIteration
    \/ LiveLoopExit
    \/ LiveWaitReturn
    \/ AsyncSpawn
    \/ AsyncCommDone
    \/ HandleResult
    \/ AfterLoop
    \/ \E c \in Codes : ChildExit(c)

SpecEnv == InitEnv /\ [][NextEnv]_vars

\* ---------------------------------------------------------------- properties
\* The child of the last attempt this call executed.
LastChild == children[attempts - 1]

Finished == pc = "done" /\ outcome.kind \in {"return", "ZapError"}

\* C1: when a call of run or run_async ends without a timeout, it raises ZapError
\* exactly if check is true and the last attempt's child exited non-zero; the
\* Result raised or returned is that last attempt's (its code is that child's exit
\* code), and an exit code of 0 is always returned, never raised.
CheckPolicy ==
    Finished =>
        /\ LastChild.code # None
        /\ outcome.code = LastChild.code
        /\ outcome.result[1].code = LastChild.code[1]
        /\ (outcome.kind = "ZapError") <=> (call.check /\ LastChild.code[1] # 0)
        /\ LastChild.code[1] = 0 => outcome.kind = "return"

\* A retried run with check=true raised ZapError carrying the last exit code.
CheckPolicyWitness ==
    /\ Finished /\ call.entry = "run" /\ call.retries = 2 /\ attempts = 3
    /\ outcome.kind = "ZapError" /\ outcome.code = Some(2)

\* C2: run never executes more than retries+1 attempts; a call whose final Result
\* is a failure (so no attempt succeeded) executed exactly retries+1 attempts and
\* then raised ZapError if check is true and returned that failing Result if not.
AttemptBudget ==
    call.entry = "run" =>
        /\ attempts <= call.retries + 1
        /\ (Finished /\ outcome.code # Some(0)) =>
              /\ attempts = call.retries + 1
              /\ call.check => outcome.kind = "ZapError"
              /\ ~call.check => outcome = Returned(result[1])

\* Every one of the three attempts of a run with retries=2 failed.
AttemptBudgetWitness ==
    /\ Finished /\ call.entry = "run" /\ call.retries = 2 /\ call.check
    /\ attempts = 3 /\ sleeps = 2 /\ last_err # None /\ last_err # Some(TimeoutErr)
    /\ outcome.kind = "ZapError"

\* C3: once an attempt of run has produced an ok Result the loop is over: no
\* further attempt is started, that Result is the one returned, and nothing is
\* raised, whatever the earlier attempts did.
FirstSuccessStops ==
    (call.entry = "run" /\ result # None /\ Ok(result[1])) =>
        /\ pc \in {"after_loop", "done"}
        /\ LastChild.code = Some(0)
        /\ pc = "done" => outcome = Returned(result[1])

\* The second attempt succeeded after the first one timed out, with a retry to spare.
FirstSuccessWitness ==
    /\ pc = "done" /\ call.entry = "run" /\ call.retries = 2 /\ attempts = 2
    /\ last_err = Some(TimeoutErr)
    /\ outcome.kind = "return" /\ outcome.code = Some(0)

\* C4: in run a timed-out attempt that is not the final one is followed by the
\* loop going on with an attempt left; a timeout of the final attempt ends the
\* call with TimeoutError, whatever check is and whatever Result an earlier
\* attempt left behind; it never ends it with a Result or ZapError.
TimeoutHandling ==
    call.entry = "run" =>
        /\ (pc = "done" /\ outcome.kind = "TimeoutError") =>
              attempts = call.retries + 1 /\ LastChild.killed
        /\ (pc = "done" /\ LastChild.killed) => outcome.kind = "TimeoutError"
        /\ (pc \in {"for", "after_loop"} /\ attempt > 0 /\ children[attempt - 1].killed) =>
              pc = "for" /\ attempt <= call.retries

\* The final attempt timed out with check=false after an earlier failing Result.
TimeoutHandlingWitness ==
    /\ pc = "done" /\ call.entry = "run" /\ call.retries = 2 /\ ~call.check
    /\ result # None /\ outcome.kind = "TimeoutError"

\* C5: run sleeps once before every attempt but the first: the sleeps taken are
\* one fewer than the attempts started, except between a sleep and the attempt
\* it precedes; a finished call slept attempts-1 times, and not at all when
\* retries=0, where it made one attempt.
SleepSpacing ==
    call.entry = "run" =>
        /\ sleeps = IF pc = "try" \/ attempts = 0 THEN attempts ELSE attempts - 1
        /\ (pc = "done" /\ call.retries = 0) => attempts = 1 /\ sleeps = 0

\* Three attempts were separated by two sleeps.
SleepSpacingWitness ==
    /\ pc = "done" /\ call.entry = "run" /\ attempts = 3 /\ sleeps = 2
    /\ outcome.kind = "return"

\* The runner is blocked on the child in a wait that has no deadline.
UntimedWait == pc = "live_wait" /\ Child.state = "running"

\* C6: on all three paths, an attempt whose child was still running when its
\* timeout had elapsed neither returns a Result nor waits for the child without
\* a deadline.
TimeoutIsUpperBound ==
    overrun => (ret.kind # "return" /\ ~Finished /\ ~UntimedWait)

\* C7: a killed child is unreaped only between the kill and the wait that follows
\* it; whenever TimeoutError has been raised by an attempt, that attempt's child
\* has been killed and reaped, on the blocking-capture, live and concurrent paths.
KillReapOrder ==
    /\ (ret.kind = "TimeoutError" \/ (pc = "done" /\ outcome.kind = "TimeoutError")) =>
          Child.killed /\ Child.state = "reaped"
    /\ \A i \in DOMAIN children :
          (children[i].killed /\ children[i].state # "reaped") =>
              /\ i = ChildIdx
              /\ \/ pc \in {"capture_killed", "live_killed", "async_wait"}
                 \/ outcome.kind = "Cancelled"

\* A live attempt raised TimeoutError to run.
KillReapWitness ==
    /\ pc = "ret" /\ ret.kind = "TimeoutError" /\ call.live
    /\ Child.killed /\ Child.state = "reaped"

\* C8: no run_async call has ended by cancellation with its child still running.
CancelKillsChild ==
    ~(pc = "done" /\ outcome.kind = "Cancelled" /\ children[0].state = "running")

PipeStart == pc = "idle" /\ pc' # "idle"

\* C9: a pipe step starts one call of run with stdin equal to the left operand's
\* stdout and check false; that call executes the next command exactly once and
\* never ends with ZapError; no step of it changes either operand; and the left
\* operand of the second step of a chain is the Result the first step returned.
PipeStepAction ==
    /\ PipeStart =>
          /\ call'.entry = "run" /\ call'.stdin = Some(left[1].stdout) /\ ~call'.check
          /\ call'.command = IF call'.piped = "str" THEN "c3" ELSE right[1].command
    /\ (pc # "idle" /\ pc' # "idle") => call' = call
    /\ ~(pc = "done" /\ pc' = "idle") => (left' = left /\ right' = right)
    /\ (pc = "done" /\ pc' = "idle") => (left' = outcome.result /\ right' = right)
    /\ attempts' <= 1
    /\ pc' = "done" => (attempts' = 1 /\ outcome'.kind \in {"return", "TimeoutError"})

PipeStep == [][PipeStepAction]_vars

\* The second step of a chain ended with a failing Result being returned.
PipeStepWitness ==
    /\ pc = "done" /\ chained /\ call.piped = "result"
    /\ call.stdin = Some(left[1].stdout) /\ left[1].command = "c2"
    /\ outcome.kind = "return" /\ outcome.code = Some(1)

\* C10: the call a pipe step makes for a right operand that is a Result has that
\* Result's command and the options of the call that produced it (timeout, cwd,
\* env, live, retries, delay), with stdin the left operand's stdout and check false.
PipeReplaysOptions ==
    (pc # "idle" /\ call.piped = "result") =>
        /\ call.command = rightCall[1].command
        /\ call.timeout = rightCall[1].timeout
        /\ call.cwd = rightCall[1].cwd
        /\ call.env = rightCall[1].env
        /\ call.live = rightCall[1].live
        /\ call.retries = rightCall[1].retries
        /\ call.delay = rightCall[1].delay
        /\ call.stdin = Some(left[1].stdout)
        /\ ~call.check

\* The runner is in _run_live, past the stdin write and before its return or raise.
InLive == pc \in {"live_loop", "live_read", "live_killed", "live_wait"}

Range(seq) == {seq[i] : i \in DOMAIN seq}

\* C11: throughout the live loop stdout_lines is exactly what was mirrored to the
\* caller's stdout and stderr_lines what was mirrored to its stderr; the Result a
\* live attempt returns has them as its stdout and stderr; and a line is only
\* ever mirrored to the stream the child wrote it to.
CaptureEqualsMirror ==
    /\ InLive => (stdout_lines = mirror["out"] /\ stderr_lines = mirror["err"])
    /\ (pc = "ret" /\ ret.kind = "return" /\ call.live) =>
          /\ ret.result[1].stdout = mirror["out"]
          /\ ret.result[1].stderr = mirror["err"]
    /\ call.live => \A s \in Streams : Range(mirror[s]) \subseteq Range(wrote[s])

\* A live attempt returned a Result with a line captured from each stream.
CaptureEqualsMirrorWitness ==
    /\ pc = "ret" /\ ret.kind = "return" /\ call.live
    /\ Len(ret.result[1].stdout) = 1 /\ Len(ret.result[1].stderr) = 1

\* C12: the child of a call of run or run_async with an env mapping is started
\* with the parent's environment overlaid by the mapping (its entries win on a
\* shared key), and with the parent's environment itself when env is omitted;
\* no step of a call, from its start to its return or raise, changes the parent's
\* environment or working directory.
EnvOverlayAction ==
    /\ (pc \notin {"idle", "done"} \/ (pc = "idle" /\ pc' # "idle")) =>
          (environ' = environ /\ getcwd' = getcwd)
    /\ (childEnv' # None /\ call'.env = None) => childEnv'[1] = environ'
    /\ (childEnv' # None /\ call'.env # None) =>
          LET e == childEnv'[1]
              m == call'.env[1]
          IN /\ DOMAIN e = DOMAIN environ' \cup DOMAIN m
             /\ \A k \in DOMAIN m : e[k] = m[k]
             /\ \A k \in DOMAIN environ' \ DOMAIN m : e[k] = environ'[k]

EnvOverlay == [][EnvOverlayAction]_vars

\* Inside a cd scope, a call with cwd= and an env that overrides A and adds C
\* has ended: its child had A and C from env and B from the parent.
EnvOverlayWitness ==
    /\ pc = "done" /\ call.cwd = Some("/a") /\ getcwd = "/b"
    /\ "B" \in DOMAIN environ
    /\ call.env # None /\ DOMAIN call.env[1] = {"A", "C"}
    /\ childEnv[1]["A"] = "extra" /\ childEnv[1]["B"] = "parent"
    /\ childEnv[1]["C"] = "extra"

\* A step that leaves the innermost cd scope.
LeavesScope == Len(prevStack') < Len(prevStack)

\* C13: whenever a cd scope is left, by the end of its body or by an exception
\* propagating out of it, the working directory afterwards is the one that was
\* current when that scope was entered, whatever the body and the scopes nested
\* in it did; a cd whose chdir fails opens no scope and leaves the working
\* directory as it was.
CdRestoresAction ==
    /\ LeavesScope =>
          /\ getcwd' = entered[Len(entered)]
          /\ entered' = SubSeq(entered, 1, Len(entered) - 1)
    /\ (~raising /\ raising' /\ pc = "idle" /\ pc' = "idle") =>
          (getcwd' = getcwd /\ prevStack' = prevStack)
    /\ Len(entered') = Len(prevStack')

CdRestores == [][CdRestoresAction]_vars

\* Inside a scope entered from / into /a, a nested scope into /b was opened, a
\* run in its body raised ZapError in a child that ran in /b, and the nested
\* scope has been left: the process is back in /a, the outer scope still open.
CdRestoresWitness ==
    /\ pc = "done" /\ outcome.kind = "ZapError"
    /\ call.cwd = None /\ childCwd = Some("/b")
    /\ prevStack = <<"/">> /\ getcwd = "/a"

\* A whole line, or the end of the stream, is there to be read from a stream
\* that is still registered.
LineWaiting(s) == s \in registered /\ pipe[s] # <<>> /\ ~WouldBlock(s)

\* The runner is inside a readline() that cannot return before the child
\* writes more to that stream or closes it.
BlockedInReadline == pc = "live_read" /\ WouldBlock(reading)

\* C14: the live loop is never held inside the read of one stream while its
\* deadline has passed or while a whole line is waiting on the other stream.
MultiplexerNeverBlocks ==
    BlockedInReadline =>
        /\ ~LiveExpired
        /\ \A s \in Streams \ {reading} : ~LineWaiting(s)

\* A stream has reached end-of-file: the child's end is closed and nothing is
\* left to read.
StreamEnded(s) == ~childOpen[s] /\ pipe[s] = <<>>

AttemptOver ==
    \/ ret.kind \in {"return", "TimeoutError"}
    \/ pc = "done" /\ outcome.kind \in {"return", "ZapError", "TimeoutError"}

\* C16: once a single attempt has ended with a Result or with TimeoutError, its
\* child has been reaped and none of the pipes to it is still open.
AttemptReleased ==
    AttemptOver => (LastChild.state = "reaped" /\ parentOpen = {})

\* The children of this call that exist and have not been reaped.
Alive == {i \in DOMAIN children : children[i].state \in {"running", "zombie"}}

\* C17: of the children of one run call at most one is alive at any time, and
\* it is the current attempt's; every earlier attempt's child has been reaped
\* and no later one exists yet; the children spawned are as many as the
\* attempts made; and an attempt after the first has its child only after the
\* sleep that precedes it.
SequentialAttempts ==
    call.entry = "run" =>
        /\ Cardinality(Alive) <= 1
        /\ \A i \in Alive : i = attempt /\ AttemptActive
        /\ \A i \in DOMAIN children :
              /\ i < attempt => children[i].state = "reaped"
              /\ i > attempt => children[i].state = "none"
        /\ attempts = Cardinality({i \in DOMAIN children : children[i].state # "none"})
        /\ \A i \in DOMAIN children : children[i].state # "none" => sleeps >= i

\* The third attempt's child is running after two sleeps, the children of the
\* two earlier attempts reaped, the second of which exited non-zero.
SequentialAttemptsWitness ==
    /\ call.entry = "run" /\ attempt = 2 /\ sleeps = 2 /\ attempts = 3
    /\ children[2].state = "running"
    /\ children[0].state = "reaped" /\ children[1].state = "reaped"
    /\ last_err # None /\ last_err # Some(TimeoutErr)

\* The attempt is in, or has come out of, its timeout branch.
TimedOut ==
    \/ pc \in {"capture_killed", "live_killed", "async_wait"}
    \/ ret.kind = "TimeoutError"

\* C18: the timeout branch of an attempt is only ever taken, or about to be
\* taken, when that attempt's own child has been running for longer than the
\* timeout, however much time the earlier attempts of the call and the sleeps
\* between them have used.
PerAttemptTimeout ==
    (TimedOut \/ DeadlineDue) => (call.timeout # None /\ ran > call.timeout[1])

\* The third attempt's child has run for the whole timeout and is not yet
\* overdue, two earlier attempts having timed out with two sleeps in between.
PerAttemptTimeoutWitness ==
    /\ call.entry = "run" /\ call.timeout = Some(1) /\ attempt = 2 /\ sleeps = 2
    /\ last_err = Some(TimeoutErr) /\ result = None
    /\ children[2].state = "running" /\ ran = 1 /\ ~DeadlineDue

\* _run_live is inside proc.stdin.write / close with text still to go and no
\* room for it in the child's stdin pipe.
StuckWritingStdin ==
    pc = "live_stdin" /\ stdinLeft > 0 /\ stdinPipe >= PipeCap

\* The child is inside a write to a stream whose pipe is full.
StuckWritingOutput ==
    Child.state = "running" /\ childBlocked # "none" /\ Full(childBlocked)

\* C19: a live attempt given stdin is never in the state where the runner
\* cannot go on writing stdin because the child does not read it, and the child
\* cannot go on because it is writing output that the runner has not begun to
\* read.
NoStdinDeadlock == ~(StuckWritingStdin /\ StuckWritingOutput)

\* The runner is in the wait of its path that the timeout bounds.
TimedWait ==
    \/ pc \in {"capture_comm", "async_comm"}
    \/ pc = "live_loop" /\ open_streams > 0

\* C20: with timeout=0, on each of the three paths, once the child has been
\* running for any time at all and the runner is in its timed wait, the
\* runner's next step is the timeout branch.
ZeroTimeoutEnforced ==
    (call.timeout = Some(0) /\ TimedWait /\ Child.state = "running" /\ ran > 0) =>
        DeadlineDue

====
